---- MODULE Spec2Model ----
(***************************************************************************)
(* Model of optimal_continousrun.py: the search for the optimal user count *)
(* (linear probe, then binary search), the update of the config document   *)
(* and the continuous benchmark loop.                                      *)
(*                                                                         *)
(* Python's None is the empty tuple; a present value x is the tuple <<x>>. *)
(* A file system directory is a function from user counts to file          *)
(* contents; a count outside its DOMAIN has no file.                       *)
(***************************************************************************)
EXTENDS Integers, Sequences, FiniteSets, TLC

\* ---------------------------------------------------------------- bounds
\* Phase 1 dispatches no trial above this user count.
MaxUserCount == 96
\* Largest acceptance threshold of a monotone environment.
MaxK == 90
\* Largest number of iterations of the continuous loop.
MaxIter == 1
\* The arguments of a direct call of binary_search_user_count range over
\* -BSNeg..BSMax.
BSNeg == 2
BSMax == 7

\* ------------------------------------------------------ program constants
StartUserCount == 56
Increment == 10

VALIDATION_CRITERION == [TTFT |-> 2000, latency_per_token |-> 200, latency |-> 200]

\* ------------------------------------------------------------ Python values
None == <<>>
Some(x) == <<x>>
Val(o) == o[1]

\* The 5-tuple of None that extract_metrics_from_avg_response returns.
NoneMetrics == <<None, None, None, None, None>>

\* any(metric is None for metric in metrics)
AnyNone(metrics) == \E i \in DOMAIN metrics : metrics[i] = None

\* Truth value of an optional number: None and 0 are false.
Truthy(o) == o # None /\ Val(o) # 0

\* all([ttft, latency, latency_per_token, throughput]) of the continuous loop
AllTruthy(metrics) == \A i \in 1..4 : Truthy(metrics[i])

\* ------------------------------------------------------------ the validator
validate_criterion_with_latency(ttft, latency_per_token, latency) ==
    /\ ttft <= VALIDATION_CRITERION.TTFT
    /\ latency_per_token <= VALIDATION_CRITERION.latency_per_token
    /\ latency <= VALIDATION_CRITERION.latency

validate_criterion(ttft, latency_per_token, latency) ==
    /\ ttft <= VALIDATION_CRITERION.TTFT
    /\ latency_per_token <= VALIDATION_CRITERION.latency_per_token

\* ------------------------------------------------------------ environment
\* The first row of an avg_Response.csv the external benchmark may write.
Row(t, l, lat, thr) == [ttft |-> t, lpt |-> l, latency |-> lat, throughput |-> thr]

AcceptRows == { Row(2000, 200, 300, 5), Row(1500, 150, 100, 0) }
RejectRows == { Row(2001, 200, 100, 5), Row(2000, 201, 100, 5) }
MetricRows == AcceptRows \cup RejectRows

\* Values of the latency column used to vary the validator's third argument.
LatencyValues == { 0, 100, 200, 201, 300 }

Csv(m) == [kind |-> "csv", row |-> m]
Malformed == [kind |-> "malformed", row |-> Row(0, 0, 0, 0)]
Absent == [kind |-> "absent", row |-> Row(0, 0, 0, 0)]

NoFiles == [c \in {} |-> Malformed]

\* What a finished benchmark run leaves at <out_dir>/<c>_User/avg_Response.csv:
\* a well-formed file, a file without the expected columns, or no file.
\* A monotone environment with threshold K writes metrics the validator
\* accepts exactly when c <= K; a free environment writes any metrics.
Rows(e, c) ==
    IF e.mono
    THEN { m \in { Row(2000, 200, 300, 5), Row(2001, 200, 100, 5) } :
             validate_criterion(m.ttft, m.lpt, m.latency) <=> (c <= e.K) }
    ELSE MetricRows

Outcomes(e, c) == { Csv(m) : m \in Rows(e, c) } \cup { Malformed, Absent }

Produce(src, c, o) ==
    IF o.kind = "absent"
    THEN [x \in DOMAIN src \ {c} |-> src[x]]
    ELSE [x \in DOMAIN src \cup {c} |-> IF x = c THEN o ELSE src[x]]

\* ------------------------------------------------------------ file helpers
\* copy_avg_response: copies the source artifact of the count, when it
\* exists, over Results/avg_Response_User<c>.csv; otherwise copies nothing.
copy_avg_response_dup(src, can, c) ==
    IF c \in DOMAIN src
    THEN IF c \in DOMAIN can
         THEN [x \in DOMAIN can \cup {c + 1000} |-> IF x = c + 1000 THEN src[c] ELSE can[x]]
         ELSE [x \in DOMAIN can \cup {c} |-> IF x = c THEN src[c] ELSE can[x]]
    ELSE can

copy_avg_response(src, can, c) ==
    IF c \in DOMAIN src
    THEN [x \in DOMAIN can \cup {c} |-> IF x = c THEN src[c] ELSE can[x]]
    ELSE can

\* extract_metrics_from_avg_response for an integer user count.
extract_metrics_from_avg_response(can, c) ==
    IF c \notin DOMAIN can THEN NoneMetrics
    ELSE IF can[c].kind # "csv" THEN NoneMetrics
    ELSE LET m == can[c].row
         IN  << Some(m.ttft), Some(m.lpt), Some(m.latency),
                Some(m.throughput), Some(m.throughput * c) >>

\* The same for the optional count the continuous loop passes: with None the
\* file is absent or throughput * None raises, and the except clause returns
\* the tuple of None.
ExtractOpt(can, oc) ==
    IF oc = None THEN NoneMetrics
    ELSE extract_metrics_from_avg_response(can, Val(oc))

\* config["user_counts"] = [c]; json.dump(config, file)
SetUserCountsStale(cfg, oc) == cfg

SetUserCounts(cfg, oc) == [cfg EXCEPT !.user_counts = << oc >>]

\* generate_summary_report: the file is rewritten with one row.
ReportRow(c, metrics, t) ==
    [ count |-> c, ttft |-> metrics[1], latency |-> metrics[3],
      lpt |-> metrics[2], throughput |-> metrics[4], total |-> metrics[5],
      time |-> t ]

generate_summary_report_append(old, c, metrics, t) ==
    Append(old, ReportRow(c, metrics, t))

generate_summary_report(old, c, metrics, t) == << ReportRow(c, metrics, t) >>

\* update_config
update_config_keep_counts(cfg, oc) ==
    IF oc # None /\ Val(oc) > 0
    THEN [cfg EXCEPT !.optimal_user_count = oc]
    ELSE cfg

update_config_counts_only(cfg, oc) ==
    IF oc # None /\ Val(oc) > 0
    THEN [cfg EXCEPT !.user_counts = << oc >>]
    ELSE cfg

update_config(cfg, oc) ==
    IF oc # None /\ Val(oc) > 0
    THEN [cfg EXCEPT !.optimal_user_count = oc, !.user_counts = << oc >>]
    ELSE cfg

\* ------------------------------------------------------------ search steps
MidCeil(lo, hi) == (lo + hi + 1) \div 2

Mid(lo, hi) == (lo + hi) \div 2

\* Line 126: low = mid + 1
AcceptLowStay(m) == m

AcceptLow(m) == m + 1

\* Line 129: high = mid
RejectHighBelow(m) == m - 1

RejectHigh(m) == m

BSResultLow(lo) == lo

BSResult(lo) == lo - 1

NextUserCountOff(c) == c + Increment + 1

NextUserCount(c) == c + Increment

VARIABLES
    pc,                   \* position of the program
    env,                  \* the benchmarked system: [mono, K]
    config,               \* the persisted config document
    source,               \* <out_dir>/<c>_User/avg_Response.csv
    canonical,            \* <out_dir>/Results/avg_Response_User<c>.csv
    report,               \* rows of Results/summary_report.csv
    user_count, previous_user_count, optimal_user_count,
    final_metrics, benchmark_time,
    low, high, mid,
    ret,                  \* value adjust_user_count returned (optional)
    iter,                 \* completed iterations of the continuous loop
    ntrials,              \* number of trials dispatched; the clock
    cur,                  \* the trial in flight or last dispatched
    trials,               \* history of the search's finished trials
    handoff,              \* arguments of the call of the binary search
    failed,               \* some run did not leave a well-formed artifact
    contLast,             \* last finished iteration of the continuous loop
    interrupted,          \* KeyboardInterrupt was delivered
    call                  \* a direct call of validate_criterion

vars == << pc, env, config, source, canonical, report, user_count,
           previous_user_count, optimal_user_count, final_metrics,
           benchmark_time, low, high, mid, ret, iter, ntrials, cur, trials,
           handoff, failed, contLast, interrupted, call >>

Envs == { [mono |-> TRUE, K |-> k] : k \in 0..MaxK } \cup { [mono |-> FALSE, K |-> 0] }

InitCommon ==
    /\ config = [out_dir |-> "out", user_counts |-> <<>>, optimal_user_count |-> None]
    /\ source = NoFiles
    /\ canonical = NoFiles
    /\ report = <<>>
    /\ user_count = StartUserCount
    /\ previous_user_count = 0
    /\ optimal_user_count = 0
    /\ final_metrics = None
    /\ benchmark_time = Some(0)
    /\ mid = 0
    /\ ret = None
    /\ iter = 0
    /\ ntrials = 0
    /\ cur = [phase |-> "none", count |-> None, read |-> <<>>]
    /\ trials = <<>>
    /\ failed = FALSE
    /\ contLast = <<>>
    /\ interrupted = FALSE

NoCall == [ttft |-> 0, lpt |-> 0, latency |-> 0, done |-> FALSE, result |-> FALSE]

\* main() has read the config and calls adjust_user_count.
Init ==
    /\ InitCommon
    /\ call = NoCall
    /\ pc = "linear"
    /\ env \in Envs
    /\ low = 0
    /\ high = 0
    /\ handoff = <<>>

Trial(phase, c, read, art, result, t) ==
    [phase |-> phase, count |-> c, read |-> read, artifact |-> art,
     result |-> result, time |-> t]

\* ------------------------------------------------------------ Phase 1
\* Lines 217-227: write the config, launch the benchmark.
LinearDispatch ==
    /\ pc = "linear"
    /\ user_count <= MaxUserCount
    /\ config' = SetUserCounts(config, Some(user_count))
    /\ ntrials' = ntrials + 1
    /\ cur' = [phase |-> "linear", count |-> Some(user_count), read |-> config'.user_counts]
    /\ \E launched \in BOOLEAN :
         IF launched
         THEN /\ pc' = "linear_run"
              /\ UNCHANGED << benchmark_time, trials, failed >>
         ELSE /\ pc' = "finish"
              /\ benchmark_time' = None
              /\ trials' = Append(trials, Trial("linear", user_count, config'.user_counts, "none", "launch_error", None))
              /\ failed' = TRUE
    /\ UNCHANGED call
    /\ UNCHANGED << env, source, canonical, report, user_count,
                    previous_user_count, optimal_user_count, final_metrics,
                    low, high, mid, ret, iter, handoff, contLast, interrupted >>

\* Lines 224-251: the benchmark returns; copy, extract, validate, branch.
LinearComplete ==
    /\ pc = "linear_run"
    /\ \E o \in Outcomes(env, user_count) :
         LET src == Produce(source, user_count, o)
             can == copy_avg_response(src, canonical, user_count)
             metrics == extract_metrics_from_avg_response(can, user_count)
             t == Some(ntrials)
         IN  /\ source' = src
             /\ canonical' = can
             /\ benchmark_time' = t
             /\ failed' = (failed \/ o.kind # "csv")
             /\ IF AnyNone(metrics)
                THEN /\ pc' = "finish"
                     /\ trials' = Append(trials, Trial("linear", user_count, cur.read, o.kind, "extract_error", t))
                     /\ UNCHANGED << user_count, previous_user_count, optimal_user_count,
                                     final_metrics, low, high, handoff >>
                ELSE IF validate_criterion(Val(metrics[1]), Val(metrics[2]), Val(metrics[3]))
                THEN /\ pc' = "linear"
                     /\ trials' = Append(trials, Trial("linear", user_count, cur.read, o.kind, "accept", t))
                     /\ previous_user_count' = user_count
                     /\ optimal_user_count' = user_count
                     /\ final_metrics' = metrics
                     /\ user_count' = NextUserCount(user_count)
                     /\ UNCHANGED << low, high, handoff >>
                ELSE /\ pc' = "binary"
                     /\ trials' = Append(trials, Trial("linear", user_count, cur.read, o.kind, "reject", t))
                     /\ low' = previous_user_count
                     /\ high' = user_count
                     /\ handoff' = << previous_user_count, user_count >>
                     /\ UNCHANGED << user_count, previous_user_count, optimal_user_count,
                                     final_metrics >>
    /\ UNCHANGED call
    /\ UNCHANGED << env, config, report, mid, ret, iter, ntrials, cur,
                    contLast, interrupted >>

\* ------------------------------------------------------------ Phase 2
\* Lines 96-111: loop test, mid, write the config, launch the benchmark.
BinaryDispatch ==
    /\ pc = "binary"
    /\ low < high
    /\ mid' = Mid(low, high)
    /\ config' = SetUserCounts(config, Some(mid'))
    /\ ntrials' = ntrials + 1
    /\ cur' = [phase |-> "binary", count |-> Some(mid'), read |-> config'.user_counts]
    /\ \E launched \in BOOLEAN :
         IF launched
         THEN /\ pc' = "binary_run"
              /\ UNCHANGED << trials, failed >>
         ELSE /\ pc' = "binary_break"
              /\ trials' = Append(trials, Trial("binary", mid', config'.user_counts, "none", "launch_error", None))
              /\ failed' = TRUE
    /\ UNCHANGED call
    /\ UNCHANGED << env, source, canonical, report, user_count,
                    previous_user_count, optimal_user_count, final_metrics,
                    benchmark_time, low, high, ret, iter, handoff, contLast,
                    interrupted >>

\* Lines 108-129: the benchmark returns (its run time is dropped); copy,
\* extract, validate, move a bound.
BinaryComplete ==
    /\ pc = "binary_run"
    /\ \E o \in Outcomes(env, mid) :
         LET src == Produce(source, mid, o)
             can == copy_avg_response(src, canonical, mid)
             metrics == extract_metrics_from_avg_response(can, mid)
             t == Some(ntrials)
         IN  /\ source' = src
             /\ canonical' = can
             /\ failed' = (failed \/ o.kind # "csv")
             /\ IF AnyNone(metrics)
                THEN /\ pc' = "binary_break"
                     /\ trials' = Append(trials, Trial("binary", mid, cur.read, o.kind, "extract_error", t))
                     /\ UNCHANGED << low, high >>
                ELSE IF validate_criterion(Val(metrics[1]), Val(metrics[2]), Val(metrics[3]))
                THEN /\ pc' = "binary"
                     /\ trials' = Append(trials, Trial("binary", mid, cur.read, o.kind, "accept", t))
                     /\ low' = AcceptLow(mid)
                     /\ high' = high
                ELSE /\ pc' = "binary"
                     /\ trials' = Append(trials, Trial("binary", mid, cur.read, o.kind, "reject", t))
                     /\ high' = RejectHigh(mid)
                     /\ low' = low
    /\ UNCHANGED call
    /\ UNCHANGED << env, config, report, user_count, previous_user_count,
                    optimal_user_count, final_metrics, benchmark_time, mid,
                    ret, iter, ntrials, cur, handoff, contLast, interrupted >>

\* Lines 132 and 249-251: the loop has ended or was left by break; the
\* caller stores the result and extracts the metrics of that count.
BinaryReturn ==
    /\ \/ pc = "binary" /\ ~(low < high)
       \/ pc = "binary_break"
    /\ optimal_user_count' = BSResult(low)
    /\ final_metrics' = extract_metrics_from_avg_response(canonical, optimal_user_count')
    /\ pc' = "finish"
    /\ UNCHANGED call
    /\ UNCHANGED << env, config, source, canonical, report, user_count,
                    previous_user_count, benchmark_time, low, high, mid, ret,
                    iter, ntrials, cur, trials, handoff, failed, contLast,
                    interrupted >>

\* Lines 253-259: a non-empty tuple is true, whatever it holds.
Finish ==
    /\ pc = "finish"
    /\ IF final_metrics # None /\ optimal_user_count > 0
       THEN /\ report' = generate_summary_report(report, optimal_user_count,
                                                 final_metrics, benchmark_time)
            /\ ret' = Some(optimal_user_count)
       ELSE /\ ret' = None
            /\ UNCHANGED report
    /\ pc' = "main"
    /\ UNCHANGED call
    /\ UNCHANGED << env, config, source, canonical, user_count,
                    previous_user_count, optimal_user_count, final_metrics,
                    benchmark_time, low, high, mid, iter, ntrials, cur,
                    trials, handoff, failed, contLast, interrupted >>

\* ------------------------------------------------------------ main
\* Lines 297-304: update_config when a count was returned; the continuous
\* loop when --incremental was given, whatever the search returned.
MainAfterSearch ==
    /\ pc = "main"
    /\ config' = IF ret # None THEN update_config(config, ret) ELSE config
    /\ \E incremental \in BOOLEAN :
         pc' = IF incremental THEN "cont" ELSE "done"
    /\ UNCHANGED call
    /\ UNCHANGED << env, source, canonical, report, user_count,
                    previous_user_count, optimal_user_count, final_metrics,
                    benchmark_time, low, high, mid, ret, iter, ntrials, cur,
                    trials, handoff, failed, contLast, interrupted >>

\* ------------------------------------------------------------ continuous
\* Lines 142-154: write the config, launch the benchmark.
ContDispatch ==
    /\ pc = "cont"
    /\ iter < MaxIter
    /\ config' = SetUserCounts(config, ret)
    /\ ntrials' = ntrials + 1
    /\ cur' = [phase |-> "cont", count |-> ret, read |-> config'.user_counts]
    /\ \E launched \in BOOLEAN :
         IF launched
         THEN /\ pc' = "cont_run"
              /\ UNCHANGED << failed, contLast >>
         ELSE /\ pc' = "done"
              /\ failed' = TRUE
              /\ contLast' = << [count |-> ret, kind |-> "launch_error",
                                 metrics |-> NoneMetrics, time |-> None,
                                 recorded |-> FALSE, next |-> FALSE] >>
    /\ UNCHANGED call
    /\ UNCHANGED << env, source, canonical, report, user_count,
                    previous_user_count, optimal_user_count, final_metrics,
                    benchmark_time, low, high, mid, ret, iter, trials,
                    handoff, interrupted >>

\* Lines 151-163: the benchmark returns; copy, extract, test, report.
\* With the count None the benchmark run touches no artifact of a count.
ContComplete ==
    /\ pc = "cont_run"
    /\ \E o \in (IF ret = None THEN { Absent } ELSE Outcomes(env, Val(ret))) :
         LET src == IF ret = None THEN source ELSE Produce(source, Val(ret), o)
             can == IF ret = None THEN canonical
                    ELSE copy_avg_response(src, canonical, Val(ret))
             metrics == ExtractOpt(can, ret)
             t == Some(ntrials)
             ok == AllTruthy(metrics)
         IN  /\ source' = src
             /\ canonical' = can
             /\ failed' = (failed \/ o.kind # "csv")
             /\ contLast' = << [count |-> ret, kind |-> o.kind, metrics |-> metrics,
                                time |-> t, recorded |-> ok, next |-> ok] >>
             /\ IF ok
                THEN /\ report' = generate_summary_report(report, Val(ret), metrics, t)
                     /\ iter' = iter + 1
                     /\ pc' = "cont_sleep"
                ELSE /\ pc' = "done"
                     /\ UNCHANGED << report, iter >>
    /\ UNCHANGED call
    /\ UNCHANGED << env, config, user_count, previous_user_count,
                    optimal_user_count, final_metrics, benchmark_time, low,
                    high, mid, ret, ntrials, cur, trials, handoff,
                    interrupted >>

\* Line 164: time.sleep(5) ends; the loop starts over.
ContSleep ==
    /\ pc = "cont_sleep"
    /\ pc' = "cont"
    /\ UNCHANGED call
    /\ UNCHANGED << env, config, source, canonical, report, user_count,
                    previous_user_count, optimal_user_count, final_metrics,
                    benchmark_time, low, high, mid, ret, iter, ntrials, cur,
                    trials, handoff, failed, contLast, interrupted >>

\* Lines 141, 165-166: KeyboardInterrupt is raised wherever the loop is,
\* also inside subprocess.run, and the except clause ends the function.
Interrupt ==
    /\ pc \in { "cont", "cont_run", "cont_sleep" }
    /\ pc' = "done"
    /\ interrupted' = TRUE
    /\ UNCHANGED call
    /\ UNCHANGED << env, config, source, canonical, report, user_count,
                    previous_user_count, optimal_user_count, final_metrics,
                    benchmark_time, low, high, mid, ret, iter, ntrials, cur,
                    trials, handoff, failed, contLast >>

Next ==
    \/ LinearDispatch
    \/ LinearComplete
    \/ BinaryDispatch
    \/ BinaryComplete
    \/ BinaryReturn
    \/ Finish
    \/ MainAfterSearch
    \/ ContDispatch
    \/ ContComplete
    \/ ContSleep
    \/ Interrupt

Spec == Init /\ [][Next]_vars

\* ------------------------------------------------------------ search only
\* adjust_user_count on its own. Every step of the sequential program is
\* eventually taken; that a launched benchmark run returns is assumed.
NextSearch ==
    \/ LinearDispatch
    \/ LinearComplete
    \/ BinaryDispatch
    \/ BinaryComplete
    \/ BinaryReturn
    \/ Finish

SpecSearch == Init /\ [][NextSearch]_vars /\ WF_vars(NextSearch)

\* ------------------------------------------------------------ direct call
\* binary_search_user_count(low, high) called on its own, in a monotone
\* environment whose threshold lies strictly between the bounds.
InitBS ==
    /\ InitCommon
    /\ call = NoCall
    /\ pc = "binary"
    /\ low \in (0 - BSNeg)..BSMax
    /\ high \in (0 - BSNeg)..BSMax
    /\ env \in { [mono |-> TRUE, K |-> k] : k \in (0 - BSNeg)..BSMax }
    /\ low < env.K
    /\ env.K < high
    /\ handoff = << low, high >>

NextBS ==
    \/ BinaryDispatch
    \/ BinaryComplete
    \/ BinaryReturn

SpecBS == InitBS /\ [][NextBS]_vars

\* ------------------------------------------------------------ the validator
\* validate_criterion(ttft, latency_per_token, latency) called on its own.
TtftValues == { -1, 0, 1999, 2000, 2001, 5000 }
LptValues == { -1, 0, 199, 200, 201, 900 }

InitV ==
    /\ InitCommon
    /\ pc = "validate"
    /\ env = [mono |-> FALSE, K |-> 0]
    /\ low = 0
    /\ high = 0
    /\ handoff = <<>>
    /\ \E t \in TtftValues, l \in LptValues, lat \in LatencyValues :
         call = [ttft |-> t, lpt |-> l, latency |-> lat, done |-> FALSE, result |-> FALSE]

Validate ==
    /\ pc = "validate"
    /\ call' = [call EXCEPT !.done = TRUE,
                            !.result = validate_criterion(call.ttft, call.lpt, call.latency)]
    /\ pc' = "validated"
    /\ UNCHANGED << env, config, source, canonical, report, user_count,
                    previous_user_count, optimal_user_count, final_metrics,
                    benchmark_time, low, high, mid, ret, iter, ntrials, cur,
                    trials, handoff, failed, contLast, interrupted >>

NextV == Validate

SpecV == InitV /\ [][NextV]_vars

\* ============================================================ properties
Errors == { "launch_error", "extract_error" }

\* The finished trials of one phase of the search, in order.
PhaseTrials(phase) == SelectSeq(trials, LAMBDA t : t.phase = phase)

SearchFailure == \E i \in DOMAIN trials : trials[i].result \in Errors

\* C1: in a monotone environment with threshold K >= 1 and no failed run,
\* adjust_user_count returns K, and the summary report then holds exactly
\* one row, whose Optimal User Count is K.
C1_EndToEnd ==
    (pc = "main" /\ env.mono /\ env.K >= 1 /\ ~failed) =>
        /\ ret = Some(env.K)
        /\ Len(report) = 1
        /\ report[1].count = env.K

C1_Witness ==
    /\ pc = "main"
    /\ env.mono
    /\ env.K = 90
    /\ ~failed
    /\ ret = Some(90)
    /\ Len(report) = 1
    /\ report[1].count = 90

\* C2: binary_search_user_count(low, high) called with low < K < high in a
\* monotone environment with threshold K, no run failing, returns K.
C2_BinarySearchConverges ==
    (pc = "finish" /\ ~failed) => optimal_user_count = env.K

C2_Witness ==
    /\ pc = "finish"
    /\ ~failed
    /\ handoff = << 0 - BSNeg, BSMax >>
    /\ env.K = 3
    /\ optimal_user_count = 3
    /\ Len(trials) >= 3

\* C3: validate_criterion is true exactly when ttft <= 2000 and
\* latency_per_token <= 200, and changing only the latency argument never
\* changes its result.
C3_Validator ==
    call.done =>
        /\ call.result <=> (call.ttft <= 2000 /\ call.lpt <= 200)
        /\ \A lat \in LatencyValues :
             validate_criterion(call.ttft, call.lpt, lat) = call.result

C3_Witness ==
    /\ call.done
    /\ call.result
    /\ call.ttft = 2000
    /\ call.lpt = 200
    /\ call.latency = 300

\* C4: as long as no Phase 1 trial fails, Phase 1 runs its trials at 56, 66,
\* 76, ... in that order, every trial before the last was accepted, and the
\* binary search is called exactly after the first rejected count c, with
\* low = the last accepted count (0 if there is none) and high = c; with
\* acceptance exactly below 86 the trials are 56, 66, 76, 86 and the call is
\* binary_search_user_count(76, 86).
C4_LinearProbe ==
    LET lin == PhaseTrials("linear")
        n == Len(lin)
    IN  (\A i \in 1..n : lin[i].result \notin Errors) =>
          /\ \A i \in 1..n : lin[i].count = StartUserCount + Increment * (i - 1)
          /\ \A i \in 1..(n - 1) : lin[i].result = "accept"
          /\ (handoff # <<>>) <=> (n >= 1 /\ lin[n].result = "reject")
          /\ handoff # <<>> =>
               /\ handoff[1] = (IF n = 1 THEN 0 ELSE lin[n - 1].count)
               /\ handoff[2] = lin[n].count
          /\ (env.mono /\ env.K = 85 /\ handoff # <<>>) =>
               /\ [i \in 1..n |-> lin[i].count] = << 56, 66, 76, 86 >>
               /\ handoff = << 76, 86 >>

C4_Witness ==
    /\ env.mono
    /\ env.K = 85
    /\ pc = "binary"
    /\ Len(trials) = 4
    /\ handoff = << 76, 86 >>

\* C5: when a launch or an extraction failed at some trial of the search,
\* adjust_user_count returns None and no summary report was written.
C5_FailureGivesNoResult ==
    (pc = "main" /\ SearchFailure) => (ret = None /\ report = <<>>)

\* C6: whenever the benchmark runs a trial at count c, in Phase 1, Phase 2
\* or the continuous loop, the config it was launched with and the config on
\* disk while it runs both hold user_counts = [c].
C6_ConfigBeforeDispatch ==
    /\ cur.phase # "none" => cur.read = << cur.count >>
    /\ pc \in { "linear_run", "binary_run", "cont_run" } =>
         config.user_counts = << cur.count >>

C6_Witness ==
    /\ pc = "binary_run"
    /\ cur.count = Some(mid)
    /\ mid # user_count
    /\ config.user_counts = << Some(mid) >>

\* C7 as stated, read on the runs in which no trial failed: once a trial was
\* dispatched, user_counts is always [c] for the count c of the most recently
\* dispatched trial, also after main has called update_config.
C7_ConfigReflectsLastTrial ==
    (ntrials > 0 /\ ~failed) => config.user_counts = << cur.count >>

\* C7 amended: until adjust_user_count has returned, user_counts is [c] for
\* the most recently dispatched trial; once main has called update_config
\* with the returned count v, user_counts is [v], in the continuous loop too.
C7_ConfigReflectsTrialOrResult ==
    ntrials > 0 =>
        IF pc \in { "cont", "cont_run", "cont_sleep", "done" } /\ ret # None
        THEN config.user_counts = << ret >>
        ELSE config.user_counts = << cur.count >>

C7_Witness ==
    /\ pc = "done"
    /\ ret # None
    /\ cur.phase = "binary"
    /\ cur.count # ret
    /\ config.user_counts = << ret >>
    /\ config.optimal_user_count = ret

\* C8: every trial of the search runs at a user count of at least 1.
C8_PositiveCounts ==
    /\ \A i \in DOMAIN trials : trials[i].count >= 1
    /\ cur.phase \in { "linear", "binary" } => Val(cur.count) >= 1

\* C9: the continuous loop is entered, and dispatches a trial, only with a
\* valid optimal count returned by the search, and at exactly that count.
C9_ContinuousOnlyAtOptimal ==
    /\ pc \in { "cont", "cont_run", "cont_sleep" } => (ret # None /\ Val(ret) > 0)
    /\ cur.phase = "cont" => (ret # None /\ Val(ret) > 0 /\ cur.count = ret)

\* C10: an iteration of the continuous loop whose launch succeeded and whose
\* extracted metrics are all present writes its summary record and goes on
\* to the next iteration; only a failed iteration ends the loop unrecorded.
C10_ContinuousStep ==
    contLast # <<>> =>
        LET it == contLast[1]
        IN  /\ (it.kind # "launch_error" /\ ~AnyNone(it.metrics)) =>
                 (it.recorded /\ it.next)
            /\ ~it.recorded =>
                 (it.kind = "launch_error" \/ AnyNone(it.metrics))

\* C11: an interrupt ends the continuous loop only between iterations: when
\* the loop was interrupted after dispatching a trial, that trial has run to
\* completion and its summary record was written. Read on the runs whose
\* search met no error and whose loop runs at the count the search returned.
C11_InterruptBetweenIterations ==
    (interrupted /\ cur.phase = "cont" /\ ret # None /\ ~SearchFailure) =>
        /\ contLast # <<>>
        /\ contLast[1].time = Some(ntrials)
        /\ contLast[1].recorded

\* C12: right after main has run the search and before any continuous trial,
\* the config holds optimal_user_count = v and user_counts = [v] when the
\* search returned a count v (then v > 0); when it returned None the config
\* is as the last dispatched trial left it, without optimal_user_count.
C12_ResultInConfig ==
    (pc \in { "cont", "done" } /\ cur.phase # "cont") =>
        IF ret # None
        THEN /\ Val(ret) > 0
             /\ config = [out_dir |-> "out", user_counts |-> << ret >>,
                          optimal_user_count |-> ret]
        ELSE config = [out_dir |-> "out", user_counts |-> cur.read,
                       optimal_user_count |-> None]

C12_Witness ==
    /\ pc = "done"
    /\ cur.phase = "binary"
    /\ ret = Some(58)
    /\ cur.count = Some(59)
    /\ config.optimal_user_count = Some(58)
    /\ config.user_counts = << Some(58) >>

\* C13: the summary report never holds more than one row, and after a call
\* of generate_summary_report, by the search or by a continuous iteration,
\* its row is the record passed to that call.
C13_ReportOverwritten ==
    /\ Len(report) <= 1
    /\ (pc = "main" /\ ret # None) =>
         report = << ReportRow(optimal_user_count, final_metrics, benchmark_time) >>
    /\ (contLast # <<>> /\ contLast[1].recorded) =>
         report = << ReportRow(Val(contLast[1].count), contLast[1].metrics,
                               contLast[1].time) >>

C13_Witness ==
    /\ contLast # <<>>
    /\ contLast[1].recorded
    /\ ret # None
    /\ Len(report) = 1
    /\ report[1].time = Some(ntrials)
    /\ report[1].ttft # final_metrics[1]

\* C14: in every reachable file system, copying the artifact of a count
\* twice gives the same Results directory as copying it once, and the copy
\* changes the canonical file of no other count.
C14_CopyIdempotent ==
    \A c \in DOMAIN source \cup DOMAIN canonical \cup { user_count, mid } :
        LET once == copy_avg_response(source, canonical, c)
            twice == copy_avg_response(source, once, c)
        IN  /\ twice = once
            /\ DOMAIN once \subseteq DOMAIN canonical \cup { c }
            /\ \A x \in DOMAIN canonical \ { c } :
                 x \in DOMAIN once /\ once[x] = canonical[x]
            /\ c \in DOMAIN source => (c \in DOMAIN once /\ once[c] = source[c])

C14_Witness ==
    \E c \in DOMAIN source \cap DOMAIN canonical :
        /\ canonical[c] = source[c]
        /\ Cardinality(DOMAIN canonical) >= 3
        /\ Len(SelectSeq(trials, LAMBDA t : t.count = c /\ t.artifact = "csv")) = 2

\* C15: a count returned by adjust_user_count is one at which a trial of
\* this search ran and was accepted.
C15_ReturnedCountAccepted ==
    (pc = "main" /\ ret # None) =>
        \E i \in DOMAIN trials :
            trials[i].count = Val(ret) /\ trials[i].result = "accept"

\* C16: when the search has written the summary report, none of the row's
\* metrics is None, and they are the metrics extracted from the well-formed
\* artifact of a trial run at the reported count.
C16_ReportedMetricsOfCount ==
    (pc = "main" /\ ret # None) =>
        /\ Len(report) = 1
        /\ LET r == report[1]
               ms == << r.ttft, r.lpt, r.latency, r.throughput, r.total >>
           IN  /\ ~AnyNone(ms)
               /\ \E i \in DOMAIN trials :
                    trials[i].count = r.count /\ trials[i].artifact = "csv"
               /\ ms = extract_metrics_from_avg_response(canonical, r.count)

\* C17 as stated: every trial of binary_search_user_count(low0, high0) runs
\* at a count strictly between low0 and high0.
C17_OpenInterval ==
    handoff # <<>> =>
        /\ \A i \in DOMAIN trials :
             trials[i].phase = "binary" =>
                 (handoff[1] < trials[i].count /\ trials[i].count < handoff[2])
        /\ cur.phase = "binary" =>
             (handoff[1] < Val(cur.count) /\ Val(cur.count) < handoff[2])

\* C17 amended: every trial of binary_search_user_count(low0, high0) runs at
\* a count mid with low0 <= mid < high0; high0 is never run again, low0 can be.
C17_HalfOpenInterval ==
    handoff # <<>> =>
        /\ \A i \in DOMAIN trials :
             trials[i].phase = "binary" =>
                 (handoff[1] <= trials[i].count /\ trials[i].count < handoff[2])
        /\ cur.phase = "binary" =>
             (handoff[1] <= Val(cur.count) /\ Val(cur.count) < handoff[2])

C17_Witness ==
    /\ handoff = << 56, 66 >>
    /\ pc = "binary_run"
    /\ cur.count = Some(56)
    /\ \E i \in DOMAIN trials :
         trials[i].phase = "linear" /\ trials[i].count = 56 /\ trials[i].result = "accept"

\* C18: a trial whose run left no artifact at <out_dir>/<c>_User is a failed
\* trial: in the search it ends as an extraction error, in the continuous
\* loop it writes no record and ends the loop, whatever Results/ holds.
\* Read on the runs whose search met no launch or extraction error.
C18_MissingArtifactFails ==
    ~SearchFailure =>
        /\ \A i \in DOMAIN trials : trials[i].artifact # "absent"
        /\ (contLast # <<>> /\ contLast[1].kind = "absent") =>
             (~contLast[1].recorded /\ ~contLast[1].next)

\* C19: every iteration of the binary search that does not abort makes
\* high - low strictly smaller, and once Phase 1 has seen a rejection or a
\* failure adjust_user_count returns, whatever the trials' outcomes are.
C19_SearchTerminates ==
    /\ [][(pc = "binary_run" /\ pc' = "binary") => (high' - low' < high - low)]_vars
    /\ (pc \in { "binary", "binary_run", "binary_break", "finish" }) ~> (pc = "main")

C19_Witness ==
    /\ pc = "main"
    /\ ~env.mono
    /\ handoff = << 0, 56 >>
    /\ Len(PhaseTrials("binary")) = 6
    /\ \A i \in DOMAIN trials : trials[i].result \notin Errors

\* C20: when the search has written the summary report, its Benchmark Time
\* is not None and is the run time of a trial at the reported count. Read on
\* the runs in which no trial failed.
C20_ReportedTimeOfCount ==
    (pc = "main" /\ ret # None /\ ~failed) =>
        /\ Len(report) = 1
        /\ report[1].time # None
        /\ \E i \in DOMAIN trials :
             trials[i].count = report[1].count /\ trials[i].time = report[1].time

====
